---- MODULE Spec2Model ----
(***************************************************************************)
(* Model of shirt_trends_monitor.py: the filter (is_valid_phrase), the     *)
(* seen-phrase store (_load_seen_phrases / _save_seen_phrases) and the     *)
(* scan (TrendMonitor.__init__, fetch_rising_queries, run, __main__).      *)
(* A phrase is a sequence of one-character strings, so that lowercasing    *)
(* and substring search are computed, not assumed.                        *)
(***************************************************************************)
EXTENDS Integers, Sequences, FiniteSets, TLC

VARIABLES
    pc,                \* position of the process: "idle", "run", "loop", "exit"
                       \* (harnesses: "filter"; "store", "saved", "loaded", "raised")
    runNo,             \* number of process invocations so far
    bot_token,         \* self.bot_token   (os.environ.get result)
    channel_id,        \* self.channel_id
    file,              \* content of seen_trends.json on disk
    seen_phrases,      \* self.seen_phrases
    potential_trends,  \* run(): the list returned by fetch_rising_queries
    idx,               \* run(): position of the for loop in potential_trends
    new_trends_found,  \* run(): the new-alert counter
    exit_code,         \* process exit status; -1 while none
    load_outcome,      \* how _load_seen_phrases ended in this invocation
    fetch_outcome,     \* how fetch_rising_queries ended in this invocation
    save_outcome,      \* how _save_seen_phrases ended in this invocation
    loaded,            \* history: the set _load_seen_phrases returned
    log,               \* history: the operations of this invocation, in order
    prev,              \* history: summary of the previous invocation that scanned
    fphrase,           \* filter harness: the phrase given to is_valid_phrase
    fresult,           \* filter harness: what is_valid_phrase returned
    store_in           \* store harness: the set given to the last save

vars == << pc, runNo, bot_token, channel_id, file, seen_phrases,
           potential_trends, idx, new_trends_found, exit_code, load_outcome,
           fetch_outcome, save_outcome, loaded, log, prev, fphrase, fresult,
           store_in >>

-----------------------------------------------------------------------------
(* Bounds of the model *)

MaxRuns == 2      \* process invocations in one behaviour
MaxCands == 2     \* length of the list fetch_rising_queries returns
MaxStored == 1    \* length of the JSON array initially on disk
MaxFrags == 3     \* fragments concatenated into a filter input

-----------------------------------------------------------------------------
(* Configuration, lines 31-49 *)

KEYWORD == <<"s","h","i","r","t">>

EXCLUDED_COLORS ==
    { <<"w","h","i","t","e">>,
      <<"b","l","a","c","k">>,
      <<"r","e","d">>,
      <<"b","l","u","e">>,
      <<"g","r","e","e","n">>,
      <<"y","e","l","l","o","w">>,
      <<"p","i","n","k">>,
      <<"p","u","r","p","l","e">>,
      <<"b","r","o","w","n">>,
      <<"g","r","e","y">>,
      <<"g","r","a","y">>,
      <<"o","r","a","n","g","e">> }

EXCLUDED_MATERIALS ==
    { <<"l","i","n","e","n">>,
      <<"d","e","n","i","m">>,
      <<"c","o","t","t","o","n">>,
      <<"s","i","l","k">>,
      <<"w","o","o","l">> }

EXCLUDED_BRANDS ==
    { <<"s","u","p","r","e","m","e">>,
      <<"b","a","p","e">>,
      <<"h","a","r","d","y">>,
      <<"c","u","s","t","o","m">>,
      <<"n","i","k","e">>,
      <<"a","d","i","d","a","s">>,
      <<"a","r","m","o","u","r">>,
      <<"u","n","d","e","r">>,
      <<"e","m","o","t","i","o","n","s">>,
      <<"p","u","n","i","s","h","e","r">>,
      <<"s","o","c","i","a","l">>,
      <<"k","a","r","l">>,
      <<"s","p","i","d","e","r","m","a","n">>,
      <<"c","h","a","n","e","l">> }

-----------------------------------------------------------------------------
(* str.lower() and the substring test `item in lower_phrase` *)

UpperCase ==
    <<"A","B","C","D","E","F","G","H","I","J","K","L","M",
      "N","O","P","Q","R","S","T","U","V","W","X","Y","Z">>

LowerCase ==
    <<"a","b","c","d","e","f","g","h","i","j","k","l","m",
      "n","o","p","q","r","s","t","u","v","w","x","y","z">>

lower_char(c) ==
    IF \E i \in 1..Len(UpperCase) : UpperCase[i] = c
    THEN LowerCase[CHOOSE i \in 1..Len(UpperCase) : UpperCase[i] = c]
    ELSE c

lower(s) == [i \in 1..Len(s) |-> lower_char(s[i])]

\* does item occur in s at position i
match_at(item, s, i) ==
    /\ i + Len(item) - 1 <= Len(s)
    /\ \A k \in 1..Len(item) : s[i + k - 1] = item[k]

RECURSIVE find_from(_, _, _)
find_from(item, s, i) ==
    IF i + Len(item) - 1 > Len(s) THEN FALSE
    ELSE IF match_at(item, s, i) THEN TRUE
    ELSE find_from(item, s, i + 1)

\* Python's  item in s  for two strings
str_in(item, s) == find_from(item, s, 1)

-----------------------------------------------------------------------------
(* is_valid_phrase, lines 92-126 *)

contains_excluded(excluded_set, lower_phrase) ==
    \E item \in excluded_set : str_in(item, lower_phrase)

is_valid_phrase_nolower(phrase) ==
    LET lower_phrase == phrase
    IN  IF ~str_in(<<"s","h","i","r","t">>, lower_phrase) THEN FALSE
        ELSE IF contains_excluded(EXCLUDED_COLORS, lower_phrase) THEN FALSE
        ELSE IF contains_excluded(EXCLUDED_MATERIALS, lower_phrase) THEN FALSE
        ELSE IF contains_excluded(EXCLUDED_BRANDS, lower_phrase) THEN FALSE
        ELSE TRUE

is_valid_phrase(phrase) ==
    LET lower_phrase == lower(phrase)
    IN  IF ~str_in(<<"s","h","i","r","t">>, lower_phrase) THEN FALSE
        ELSE IF contains_excluded(EXCLUDED_COLORS, lower_phrase) THEN FALSE
        ELSE IF contains_excluded(EXCLUDED_MATERIALS, lower_phrase) THEN FALSE
        ELSE IF contains_excluded(EXCLUDED_BRANDS, lower_phrase) THEN FALSE
        ELSE TRUE

-----------------------------------------------------------------------------
(* The durable file seen_trends.json.                                      *)
(* kind "absent":    os.path.exists is False                               *)
(* kind "malformed": text json.load rejects (JSONDecodeError), such as an  *)
(*                   empty or truncated file                               *)
(* kind "scalar":    a JSON document that is no container (null, 5, true)  *)
(* kind "array":     a JSON array of strings, items in file order          *)
(* kind "object":    a JSON object, items are its keys in file order       *)
(* json.dump / json.load of a list of str are taken by their library       *)
(* contract: the list read back is the list written.                       *)

Range(s) == { s[i] : i \in 1..Len(s) }

AbsentFile == [kind |-> "absent", items |-> <<>>]
MalformedFile == [kind |-> "malformed", items |-> <<>>]
ScalarFile == [kind |-> "scalar", items |-> <<>>]
ArrayFile(items) == [kind |-> "array", items |-> items]
ObjectFile(keys) == [kind |-> "object", items |-> keys]

\* list(self.seen_phrases): the elements of the set once each, in any order
list_of(S) == { s \in [1..Cardinality(S) -> S] : Range(s) = S }

\* set(data) of line 79 for the document json.load returned;
\* a scalar is not iterable (TypeError, not caught by line 80)
set_of_data_fresh(f) ==
    IF f.kind = "scalar" THEN [raised |-> TRUE, value |-> {}]
    ELSE [raised |-> FALSE, value |-> {}]

set_of_data(f) ==
    IF f.kind = "scalar" THEN [raised |-> TRUE, value |-> {}]
    ELSE [raised |-> FALSE, value |-> Range(f.items)]

\* _load_seen_phrases, lines 72-82. read_error: open/read raises IOError.
\* Result: raised (an exception leaves the method), value (the set
\* returned), outcome (which path was taken).
_load_seen_phrases(f, read_error) ==
    IF f.kind = "absent"
    THEN [raised |-> FALSE, value |-> {}, outcome |-> "absent"]
    ELSE IF read_error
    THEN [raised |-> FALSE, value |-> {}, outcome |-> "ioerror"]
    ELSE IF f.kind = "malformed"
    THEN [raised |-> FALSE, value |-> {}, outcome |-> "malformed"]
    ELSE LET r == set_of_data(f)
         IN  [raised |-> r.raised, value |-> r.value,
              outcome |-> IF r.raised THEN "raised" ELSE "ok"]

SaveOutcomes == {"ok", "open_failed", "write_failed"}

_save_seen_phrases_newonly(f, seen, outcome, order) ==
    LET added(x) == x \notin loaded
    IN  CASE outcome = "ok" -> ArrayFile(SelectSeq(order, added))
          [] outcome = "open_failed" -> f
          [] outcome = "write_failed" -> MalformedFile

_save_seen_phrases_dropfirst(f, seen, outcome, order) ==
    CASE outcome = "ok" -> ArrayFile(SubSeq(order, 2, Len(order)))
      [] outcome = "open_failed" -> f
      [] outcome = "write_failed" -> MalformedFile

\* _save_seen_phrases, lines 84-90: the content of the file afterwards.
\* "open_failed": open(SEEN_FILE, 'w') raises IOError, the file is untouched.
\* "write_failed": open truncated the file and json.dump or the close
\*                 raises IOError, the file holds a truncated document.
_save_seen_phrases(f, seen, outcome, order) ==
    CASE outcome = "ok" -> ArrayFile(order)
      [] outcome = "open_failed" -> f
      [] outcome = "write_failed" -> MalformedFile

-----------------------------------------------------------------------------
(* Inputs of the model *)

\* the characters of the strings the model uses
chars(str) ==
    CASE str = "Oversized Shirt" ->
           <<"O","v","e","r","s","i","z","e","d"," ","S","h","i","r","t">>
      [] str = "oversized shirt" ->
           <<"o","v","e","r","s","i","z","e","d"," ","s","h","i","r","t">>
      [] str = "Red Denim Shirt" ->
           <<"R","e","d"," ","D","e","n","i","m"," ","S","h","i","r","t">>
      [] str = "250" -> <<"2","5","0">>
      [] str = "Breakout" -> <<"B","r","e","a","k","o","u","t">>

\* rows the trends source can return: item['query'], item['value']
Feed ==
    { [query |-> "Oversized Shirt", value |-> "250"],
      [query |-> "oversized shirt", value |-> "Breakout"],
      [query |-> "Red Denim Shirt", value |-> "Breakout"] }

Phrases == { c.query : c \in Feed }

RECURSIVE SeqsUpTo(_, _)
SeqsUpTo(S, n) ==
    IF n = 0 THEN { <<>> }
    ELSE LET shorter == SeqsUpTo(S, n - 1)
         IN  shorter \cup { Append(s, x) : s \in shorter, x \in S }

\* what may be on disk before the first invocation
InitialFiles ==
    { AbsentFile, MalformedFile, ScalarFile }
    \cup { ArrayFile(s) : s \in SeqsUpTo(Phrases, MaxStored) }
    \cup { ObjectFile(<<"Oversized Shirt">>) }

\* os.environ.get: unset (None), set to the empty string, set to a value
EnvValues == {"<unset>", "", "set"}

SendResults == {"200", "non200", "exception"}

-----------------------------------------------------------------------------
(* Events recorded in log *)

Event(op, phrase, growth, result) ==
    [op |-> op, phrase |-> phrase, growth |-> growth, result |-> result]

NoPrev ==
    [scanned |-> FALSE, potential_trends |-> <<>>, loaded |-> {},
     seen_phrases |-> {}, log |-> <<>>, save_outcome |-> "none",
     new_trends_found |-> 0]

\* the invocation now at "exit", if it ran a scan to the end
ThisScan ==
    [scanned |-> TRUE, potential_trends |-> potential_trends,
     loaded |-> loaded, seen_phrases |-> seen_phrases, log |-> log,
     save_outcome |-> save_outcome, new_trends_found |-> new_trends_found]

\* the last invocation that ran a scan to the end
LastScan == IF pc = "exit" /\ exit_code = 0 THEN ThisScan ELSE prev

-----------------------------------------------------------------------------
(* __main__ lines 220-222 with TrendMonitor.__init__, lines 60-70 *)

missing_config_both(tok, chan) == tok \in {"<unset>", ""} /\ chan \in {"<unset>", ""}

\* line 65: not self.bot_token or not self.channel_id
missing_config(tok, chan) == tok \in {"<unset>", ""} \/ chan \in {"<unset>", ""}

Invoke(tok, chan, read_error) ==
    /\ pc \in {"idle", "exit"}
    /\ runNo < MaxRuns
    /\ runNo' = runNo + 1
    /\ prev' = LastScan
    /\ bot_token' = tok
    /\ channel_id' = chan
    /\ potential_trends' = <<>>
    /\ idx' = 0
    /\ new_trends_found' = 0
    /\ fetch_outcome' = "none"
    /\ save_outcome' = "none"
    /\ IF missing_config(tok, chan)
       THEN \* sys.exit(1) of line 67
            /\ pc' = "exit"
            /\ exit_code' = 1
            /\ seen_phrases' = {}
            /\ loaded' = {}
            /\ load_outcome' = "none"
            /\ log' = <<>>
       ELSE LET r == _load_seen_phrases(file, read_error)
            IN  /\ load_outcome' = r.outcome
                /\ log' = << Event("load", "", "", r.outcome) >>
                /\ loaded' = r.value
                /\ seen_phrases' = r.value
                /\ IF r.raised
                   THEN \* lines 226-228: except Exception, sys.exit(1)
                        /\ pc' = "exit"
                        /\ exit_code' = 1
                   ELSE /\ pc' = "run"
                        /\ exit_code' = -1
    /\ UNCHANGED << file, fphrase, fresult, store_in >>

-----------------------------------------------------------------------------
(* fetch_rising_queries, lines 128-153; run lines 186-190 *)

FetchOutcomes == {"error", "empty", "rows"}

fetch_rising_queries_uncaught(outcome, rows) ==
    CASE outcome = "error" -> [raised |-> TRUE, value |-> <<>>]
      [] outcome = "empty" -> [raised |-> FALSE, value |-> <<>>]
      [] outcome = "rows" -> [raised |-> FALSE, value |-> rows]

\* outcome "error": build_payload or related_queries raises (line 151);
\* "empty": lines 137-139 or 144-146; "rows": line 149.
\* raised: an exception leaves the method
fetch_rising_queries(outcome, rows) ==
    CASE outcome = "error" -> [raised |-> FALSE, value |-> <<>>]
      [] outcome = "empty" -> [raised |-> FALSE, value |-> <<>>]
      [] outcome = "rows" -> [raised |-> FALSE, value |-> rows]

Fetch(outcome, rows) ==
    /\ pc = "run"
    /\ outcome = "rows" => rows # <<>>
    /\ outcome # "rows" => rows = <<>>
    /\ LET r == fetch_rising_queries(outcome, rows)
       IN  /\ potential_trends' = r.value
           /\ IF r.raised
              THEN \* lines 226-228: except Exception, sys.exit(1)
                   /\ pc' = "exit"
                   /\ exit_code' = 1
              ELSE /\ pc' = "loop"
                   /\ exit_code' = exit_code
    /\ fetch_outcome' = outcome
    /\ new_trends_found' = 0
    /\ idx' = 1
    /\ log' = Append(log, Event("fetch", "", "", outcome))
    /\ UNCHANGED << runNo, bot_token, channel_id, file, seen_phrases,
                    load_outcome, save_outcome, loaded, prev,
                    fphrase, fresult, store_in >>

-----------------------------------------------------------------------------
(* send_telegram_alert, lines 155-182 *)

breakout == <<"b","r","e","a","k","o","u","t">>

growth_str_exact(growth_value) ==
    IF chars(growth_value) = breakout
    THEN "BREAKOUT"
    ELSE "+" \o growth_value \o "%"

\* line 158
growth_str(growth_value) ==
    IF lower(chars(growth_value)) = breakout
    THEN "BREAKOUT"
    ELSE "+" \o growth_value \o "%"

\* the request of line 176 and how it ended; no outcome raises (lines 177-182)
send_telegram_alert(phrase, growth_value, send_result) ==
    Event("send", phrase, growth_str(growth_value), send_result)

-----------------------------------------------------------------------------
(* run, lines 192-218 *)

\* line 201 for each phrase the source can return (evaluated once)
valid_query == [q \in Phrases |-> is_valid_phrase(chars(q))]

\* one iteration of the for loop, lines 192-212: the store and the counter
\* afterwards, and the operations performed
run_item_retry(seen, count, item, send_result) ==
    LET query == item.query
        value == item.value
    IN  IF query \in seen
        THEN [seen |-> seen, count |-> count,
              events |-> << Event("check_seen", query, "", "seen") >>]
        ELSE IF valid_query[query]
        THEN [seen |-> IF send_result = "200" THEN seen \cup {query} ELSE seen,
              count |-> count + 1,
              events |-> << Event("check_seen", query, "", "new"),
                            Event("is_valid", query, "", "valid"),
                            send_telegram_alert(query, value, send_result),
                            Event("add", query, "", "") >>]
        ELSE [seen |-> seen, count |-> count,
              events |-> << Event("check_seen", query, "", "new"),
                            Event("is_valid", query, "", "invalid") >>]

\* the lowercase form of each phrase the source can return
LowerKey == [q \in Phrases |-> lower(chars(q))]

run_item_casefold(seen, count, item, send_result) ==
    LET query == item.query
        value == item.value
    IN  IF \E s \in seen : LowerKey[s] = LowerKey[query]
        THEN [seen |-> seen, count |-> count,
              events |-> << Event("check_seen", query, "", "seen") >>]
        ELSE IF valid_query[query]
        THEN [seen |-> seen \cup {query},
              count |-> count + 1,
              events |-> << Event("check_seen", query, "", "new"),
                            Event("is_valid", query, "", "valid"),
                            send_telegram_alert(query, value, send_result),
                            Event("add", query, "", "") >>]
        ELSE [seen |-> seen, count |-> count,
              events |-> << Event("check_seen", query, "", "new"),
                            Event("is_valid", query, "", "invalid") >>]

run_item_addfirst(seen, count, item, send_result) ==
    LET query == item.query
        value == item.value
    IN  IF query \in seen
        THEN [seen |-> seen, count |-> count,
              events |-> << Event("check_seen", query, "", "seen") >>]
        ELSE IF valid_query[query]
        THEN [seen |-> seen \cup {query},
              count |-> count + 1,
              events |-> << Event("check_seen", query, "", "new"),
                            Event("is_valid", query, "", "valid"),
                            Event("add", query, "", ""),
                            send_telegram_alert(query, value, send_result) >>]
        ELSE [seen |-> seen, count |-> count,
              events |-> << Event("check_seen", query, "", "new"),
                            Event("is_valid", query, "", "invalid") >>]

run_item_noadd(seen, count, item, send_result) ==
    LET query == item.query
        value == item.value
    IN  IF query \in seen
        THEN [seen |-> seen, count |-> count,
              events |-> << Event("check_seen", query, "", "seen") >>]
        ELSE IF valid_query[query]
        THEN [seen |-> seen,
              count |-> count + 1,
              events |-> << Event("check_seen", query, "", "new"),
                            Event("is_valid", query, "", "valid"),
                            send_telegram_alert(query, value, send_result),
                            Event("add", query, "", "") >>]
        ELSE [seen |-> seen, count |-> count,
              events |-> << Event("check_seen", query, "", "new"),
                            Event("is_valid", query, "", "invalid") >>]

run_item_markall(seen, count, item, send_result) ==
    LET query == item.query
        value == item.value
    IN  IF query \in seen
        THEN [seen |-> seen, count |-> count,
              events |-> << Event("check_seen", query, "", "seen") >>]
        ELSE IF valid_query[query]
        THEN [seen |-> seen \cup {query},
              count |-> count + 1,
              events |-> << Event("check_seen", query, "", "new"),
                            Event("is_valid", query, "", "valid"),
                            send_telegram_alert(query, value, send_result),
                            Event("add", query, "", "") >>]
        ELSE [seen |-> seen \cup {query}, count |-> count,
              events |-> << Event("check_seen", query, "", "new"),
                            Event("is_valid", query, "", "invalid") >>]

run_item(seen, count, item, send_result) ==
    LET query == item.query
        value == item.value
    IN  IF query \in seen
        THEN [seen |-> seen, count |-> count,
              events |-> << Event("check_seen", query, "", "seen") >>]
        ELSE IF valid_query[query]
        THEN [seen |-> seen \cup {query},
              count |-> count + 1,
              events |-> << Event("check_seen", query, "", "new"),
                            Event("is_valid", query, "", "valid"),
                            send_telegram_alert(query, value, send_result),
                            Event("add", query, "", "") >>]
        ELSE [seen |-> seen, count |-> count,
              events |-> << Event("check_seen", query, "", "new"),
                            Event("is_valid", query, "", "invalid") >>]

LoopStep_break(send_result) ==
    /\ pc = "loop"
    /\ idx <= Len(potential_trends)
    /\ LET r == run_item(seen_phrases, new_trends_found,
                         potential_trends[idx], send_result)
       IN  /\ seen_phrases' = r.seen
           /\ new_trends_found' = r.count
           /\ log' = log \o r.events
           /\ idx' = IF r.count > new_trends_found /\ send_result # "200"
                     THEN Len(potential_trends) + 1
                     ELSE idx + 1
    /\ UNCHANGED << pc, runNo, bot_token, channel_id, file, potential_trends,
                    exit_code, load_outcome, fetch_outcome, save_outcome,
                    loaded, prev, fphrase, fresult, store_in >>

LoopStep(send_result) ==
    /\ pc = "loop"
    /\ idx <= Len(potential_trends)
    /\ LET r == run_item(seen_phrases, new_trends_found,
                         potential_trends[idx], send_result)
       IN  /\ seen_phrases' = r.seen
           /\ new_trends_found' = r.count
           /\ log' = log \o r.events
    /\ idx' = idx + 1
    /\ UNCHANGED << pc, runNo, bot_token, channel_id, file, potential_trends,
                    exit_code, load_outcome, fetch_outcome, save_outcome,
                    loaded, prev, fphrase, fresult, store_in >>

\* line 214
save_needed_always(count) == TRUE

save_needed(count) == count > 0

\* lines 214-218 and the normal end of the process
Finish(outcome) ==
    /\ pc = "loop"
    /\ idx > Len(potential_trends)
    /\ IF save_needed(new_trends_found)
       THEN /\ \E order \in list_of(seen_phrases) :
                 file' = _save_seen_phrases(file, seen_phrases, outcome, order)
            /\ save_outcome' = outcome
            /\ log' = Append(log, Event("save", "", "", outcome))
       ELSE /\ outcome = "ok"
            /\ UNCHANGED << file, save_outcome, log >>
    /\ pc' = "exit"
    /\ exit_code' = 0
    /\ UNCHANGED << runNo, bot_token, channel_id, seen_phrases,
                    potential_trends, idx, new_trends_found, load_outcome,
                    fetch_outcome, loaded, prev, fphrase, fresult, store_in >>

-----------------------------------------------------------------------------
(* The program: repeated invocations of the script *)

\* before the first invocation: nothing but the file on disk
Idle ==
    /\ runNo = 0
    /\ bot_token = "<unset>"
    /\ channel_id = "<unset>"
    /\ potential_trends = <<>>
    /\ idx = 0
    /\ new_trends_found = 0
    /\ exit_code = -1
    /\ load_outcome = "none"
    /\ fetch_outcome = "none"
    /\ save_outcome = "none"
    /\ loaded = {}
    /\ log = <<>>
    /\ prev = NoPrev
    /\ store_in = {}

Init ==
    /\ Idle
    /\ pc = "idle"
    /\ file \in InitialFiles
    /\ seen_phrases = {}
    /\ fphrase = <<>>
    /\ fresult = "unset"

Next ==
    \/ \E tok \in EnvValues, chan \in EnvValues, read_error \in BOOLEAN :
          Invoke(tok, chan, read_error)
    \/ \E outcome \in FetchOutcomes, rows \in SeqsUpTo(Feed, MaxCands) :
          Fetch(outcome, rows)
    \/ \E send_result \in SendResults : LoopStep(send_result)
    \/ \E outcome \in SaveOutcomes : Finish(outcome)

Spec == Init /\ [][Next]_vars

-----------------------------------------------------------------------------
(* Harness for the filter: is_valid_phrase applied to bounded inputs *)

Fragments ==
    { <<"s","h","i","r","t">>, <<"S","h","i","r","t">>, <<"S","H","I">>,
      <<"r","t">>, <<"r","e","d">>, <<"R","E","D">>, <<"r","e">>, <<"d">>,
      <<" ">>, <<"t","e","e">>, <<"S","i","l","k">>, <<"N","I","K","E">>,
      <<"h","a","t">> }

RECURSIVE Concats(_)
Concats(n) ==
    IF n = 0 THEN { <<>> }
    ELSE LET shorter == Concats(n - 1)
         IN  shorter \cup { s \o f : s \in shorter, f \in Fragments }

FilterInputs == Concats(MaxFrags)

InitFilter ==
    /\ Idle
    /\ pc = "filter"
    /\ file = AbsentFile
    /\ seen_phrases = {}
    /\ fphrase \in FilterInputs
    /\ fresult = "unset"

FilterEvaluate ==
    /\ pc = "filter"
    /\ fresult = "unset"
    /\ fresult' = IF is_valid_phrase(fphrase) THEN "True" ELSE "False"
    /\ UNCHANGED << pc, runNo, bot_token, channel_id, file, seen_phrases,
                    potential_trends, idx, new_trends_found, exit_code,
                    load_outcome, fetch_outcome, save_outcome, loaded, log,
                    prev, fphrase, store_in >>

NextFilter == FilterEvaluate

SpecFilter == InitFilter /\ [][NextFilter]_vars

-----------------------------------------------------------------------------
(* Harness for the store: save and load applied to bounded inputs *)

InitStore ==
    /\ Idle
    /\ pc = "store"
    /\ file \in InitialFiles
    /\ seen_phrases \in SUBSET Phrases
    /\ fphrase = <<>>
    /\ fresult = "unset"

StoreSave(outcome) ==
    /\ pc = "store"
    /\ \E order \in list_of(seen_phrases) :
          file' = _save_seen_phrases(file, seen_phrases, outcome, order)
    /\ store_in' = seen_phrases
    /\ save_outcome' = outcome
    /\ pc' = "saved"
    /\ UNCHANGED << runNo, bot_token, channel_id, seen_phrases,
                    potential_trends, idx, new_trends_found, exit_code,
                    load_outcome, fetch_outcome, loaded, log, prev, fphrase,
                    fresult >>

StoreLoad(read_error) ==
    /\ pc \in {"store", "saved"}
    /\ LET r == _load_seen_phrases(file, read_error)
       IN  /\ load_outcome' = r.outcome
           /\ IF r.raised
              THEN /\ pc' = "raised"
                   /\ UNCHANGED << seen_phrases, loaded >>
              ELSE /\ pc' = "loaded"
                   /\ seen_phrases' = r.value
                   /\ loaded' = r.value
    /\ UNCHANGED << runNo, bot_token, channel_id, file, potential_trends,
                    idx, new_trends_found, exit_code, fetch_outcome,
                    save_outcome, log, prev, fphrase, fresult, store_in >>

NextStore ==
    \/ \E outcome \in SaveOutcomes : StoreSave(outcome)
    \/ \E read_error \in BOOLEAN : StoreLoad(read_error)

SpecStore == InitStore /\ [][NextStore]_vars

-----------------------------------------------------------------------------
(* Properties of the filter, checked under SpecFilter *)

\* e occurs in s as a contiguous substring
HasSubstring(e, s) ==
    \E i \in 1..(Len(s) - Len(e) + 1) : SubSeq(s, i, i + Len(e) - 1) = e

AllExcluded == EXCLUDED_COLORS \cup EXCLUDED_MATERIALS \cup EXCLUDED_BRANDS

\* C9: is_valid_phrase(p) is true exactly when the lowercased p contains
\* "shirt" and contains no entry of the colour, material or brand sets as a
\* substring; a phrase without the keyword (the empty phrase too) is
\* rejected whatever else it contains, upper-case letters included.
C9_FilterIffKeywordAndNoExclusion ==
    fresult # "unset" =>
        /\ (fresult = "True") <=>
              /\ HasSubstring(KEYWORD, lower(fphrase))
              /\ \A e \in AllExcluded : ~HasSubstring(e, lower(fphrase))
        /\ ~HasSubstring(KEYWORD, lower(fphrase)) => fresult = "False"
        /\ fphrase = <<>> => fresult = "False"

\* an accepted phrase and a phrase rejected only through upper-case letters
\* of an exclusion entry have both been evaluated
C9_Witness ==
    /\ fresult = "False"
    /\ HasSubstring(KEYWORD, lower(fphrase))
    /\ ~HasSubstring(KEYWORD, fphrase)
    /\ \E e \in AllExcluded :
          HasSubstring(e, lower(fphrase)) /\ ~HasSubstring(e, fphrase)

-----------------------------------------------------------------------------
(* Properties of the store, checked under SpecStore *)

\* C4: _load_seen_phrases never lets an exception out, whatever the file
\* holds, and returns the empty set when the file is absent or its content
\* is not a JSON array of strings.
C4_LoadNeverRaises ==
    /\ pc # "raised"
    /\ (pc = "loaded" /\ file.kind \in {"absent", "malformed", "scalar"})
          => seen_phrases = {}

-----------------------------------------------------------------------------
(* Properties of the scan, checked under Spec *)

\* number of dispatches (send_telegram_alert calls) for phrase p in log l
SentCount(l, p) ==
    Cardinality({ i \in 1..Len(l) : l[i].op = "send" /\ l[i].phrase = p })

SentPhrases(l) == { l[i].phrase : i \in { j \in 1..Len(l) : l[j].op = "send" } }

FailedPhrases(l) ==
    { l[i].phrase :
        i \in { j \in 1..Len(l) : l[j].op = "send" /\ l[j].result # "200" } }

Queries(rows) == { rows[i].query : i \in 1..Len(rows) }

HasSave(l) == \E i \in 1..Len(l) : l[i].op = "save"

Scanning == pc \in {"run", "loop"} \/ (pc = "exit" /\ exit_code = 0)

\* this invocation fetched the candidate list of the previous scan, whose
\* save succeeded, and loaded what that save wrote
SecondOfTwo ==
    /\ pc \in {"loop", "exit"}
    /\ fetch_outcome # "none"
    /\ prev.scanned
    /\ prev.save_outcome = "ok"
    /\ load_outcome = "ok"
    /\ loaded = prev.seen_phrases
    /\ potential_trends = prev.potential_trends

\* C1: two scans over the same candidate list, the save of the first
\* succeeding and the second loading what was saved: every phrase that is
\* a candidate, valid and not in the store loaded by the first scan is
\* dispatched exactly once over both scans, and the second scan dispatches
\* nothing and counts no new alert.
C1_Idempotent ==
    SecondOfTwo =>
        /\ \A p \in Phrases :
              (p \in Queries(prev.potential_trends) /\ valid_query[p]
                  /\ p \notin prev.loaded)
                 => SentCount(prev.log, p) + SentCount(log, p) = 1
        /\ SentPhrases(log) = {}
        /\ new_trends_found = 0

\* the second scan ended over a list naming a qualifying phrase twice
C1_Witness ==
    /\ SecondOfTwo
    /\ pc = "exit"
    /\ Len(potential_trends) = 2
    /\ potential_trends[1] = potential_trends[2]
    /\ SentCount(prev.log, potential_trends[1].query) = 1

\* C2: a phrase dispatched in one scan is not dispatched in the next scan.
C2_NoRetryNextScan ==
    prev.scanned => SentPhrases(prev.log) \cap SentPhrases(log) = {}

\* C2 as amended: a phrase dispatched in one scan, the send succeeding or
\* not, is not dispatched in the next scan, provided the save of the first
\* scan succeeded and the load of the next read the file without error.
C2_NoRetryAfterSave ==
    (prev.scanned /\ prev.save_outcome = "ok" /\ load_outcome = "ok")
        => SentPhrases(prev.log) \cap SentPhrases(log) = {}

\* the next scan met, and skipped, a phrase whose send had failed
C2_Witness ==
    /\ prev.scanned
    /\ prev.save_outcome = "ok"
    /\ load_outcome = "ok"
    /\ pc = "exit"
    /\ \E p \in FailedPhrases(prev.log) :
          /\ p \in Queries(potential_trends)
          /\ SentCount(log, p) = 0

\* C3: a phrase whose dispatch failed is in the seen set and, after the
\* run, in the persisted store.
C3_FailedStillPersisted ==
    \A p \in FailedPhrases(log) :
        /\ p \in seen_phrases
        /\ pc = "exit" => (file.kind = "array" /\ p \in Range(file.items))

\* C3 as amended: a phrase whose dispatch failed is in the seen set, the
\* run invokes save, and when that save succeeds the phrase is in the
\* persisted store after the run.
C3_FailedStillSeenAndSaved ==
    \A p \in FailedPhrases(log) :
        /\ p \in seen_phrases
        /\ pc = "exit" =>
              /\ save_outcome # "none"
              /\ save_outcome = "ok" =>
                    (file.kind = "array" /\ p \in Range(file.items))

\* a run ended with a successful save after a send that raised
C3_Witness ==
    /\ pc = "exit"
    /\ save_outcome = "ok"
    /\ \E i \in 1..Len(log) : log[i].op = "send" /\ log[i].result = "exception"
    /\ \E i \in 1..Len(log) : log[i].op = "send" /\ log[i].result = "non200"

\* C6: save is invoked exactly when the counter is positive after the loop,
\* which is exactly when the in-memory set grew beyond the loaded set; a
\* run without new alerts leaves the file as it was, and nothing but the
\* end of a run with new alerts changes the file.
C6_SaveIffGrew ==
    [][ /\ (pc = "loop" /\ pc' = "exit") =>
              /\ HasSave(log') <=> new_trends_found > 0
              /\ HasSave(log') <=>
                    (loaded \subseteq seen_phrases /\ seen_phrases # loaded)
              /\ new_trends_found = 0 => file' = file
        /\ (HasSave(log') /\ ~HasSave(log)) => (pc = "loop" /\ pc' = "exit")
        /\ file' # file =>
              (pc = "loop" /\ pc' = "exit" /\ new_trends_found > 0)
      ]_vars

\* after a scan that saved, a scan over candidates ended without a save
C6_Witness ==
    /\ prev.scanned
    /\ HasSave(prev.log)
    /\ pc = "exit"
    /\ exit_code = 0
    /\ Len(potential_trends) = 2
    /\ new_trends_found = 0
    /\ ~HasSave(log)

\* C7: every phrase in the in-memory store was loaded at start or was
\* dispatched in this run; a candidate the filter rejected is not added;
\* a candidate found in the store is followed by no filter evaluation and
\* no dispatch, the loop going on to the next candidate.
C7_StoreOnlyAlerted ==
    /\ seen_phrases \subseteq (loaded \cup SentPhrases(log))
    /\ \A i \in 1..Len(log) :
          (log[i].op = "is_valid" /\ log[i].result = "invalid") =>
              /\ log[i].phrase \notin seen_phrases
              /\ \A j \in 1..Len(log) :
                    log[j].phrase = log[i].phrase
                       => log[j].op \notin {"send", "add"}
    /\ \A i \in 1..Len(log) :
          (log[i].op = "check_seen" /\ log[i].result = "seen") =>
              (i = Len(log) \/ log[i + 1].op \in {"check_seen", "save"})
    /\ \A i \in 1..Len(log) :
          log[i].op \in {"is_valid", "send", "add"} =>
              \E j \in 1..(i - 1) :
                  /\ log[j].op = "check_seen"
                  /\ log[j].result = "new"
                  /\ log[j].phrase = log[i].phrase

\* after a scan that dispatched, a scan skipped a seen candidate and
\* rejected another
C7_Witness ==
    /\ prev.scanned
    /\ SentPhrases(prev.log) # {}
    /\ pc = "exit"
    /\ \E i \in 1..Len(log) :
          log[i].op = "check_seen" /\ log[i].result = "seen"
    /\ \E i \in 1..Len(log) :
          log[i].op = "is_valid" /\ log[i].result = "invalid"

\* C8: within an invocation no step removes a phrase from the in-memory
\* set; and when the last scan's save did not fail and the load of the
\* next invocation does not fail, the set loaded contains the set the
\* last scan ended with.
C8_Monotonic ==
    [][ /\ runNo' = runNo => seen_phrases \subseteq seen_phrases'
        /\ ( /\ runNo' # runNo
             /\ LastScan.scanned
             /\ LastScan.save_outcome \in {"none", "ok"}
             /\ pc' = "run"
             /\ load_outcome' # "ioerror" )
              => LastScan.seen_phrases \subseteq loaded'
      ]_vars

\* a second scan loaded what the first saved and added a phrase to it
C8_Witness ==
    /\ prev.scanned
    /\ prev.save_outcome = "ok"
    /\ prev.seen_phrases # {}
    /\ load_outcome = "ok"
    /\ pc = "exit"
    /\ new_trends_found > 0
    /\ prev.seen_phrases \subseteq seen_phrases
    /\ prev.seen_phrases # seen_phrases

\* C10: after a failed fetch, as after an empty result, the candidate list
\* is empty, nothing is dispatched, the in-memory store is the loaded one,
\* save is not invoked and the process ends with status 0.
C10_FetchFailureIsEmpty ==
    fetch_outcome \in {"error", "empty"} =>
        /\ potential_trends = <<>>
        /\ SentPhrases(log) = {}
        /\ seen_phrases = loaded
        /\ new_trends_found = 0
        /\ ~HasSave(log)
        /\ save_outcome = "none"
        /\ pc \in {"loop", "exit"}
        /\ pc = "exit" => exit_code = 0
        /\ pc = "loop" => idx > Len(potential_trends)

\* a run over a non-empty store ended after its fetch failed
C10_Witness ==
    /\ pc = "exit"
    /\ fetch_outcome = "error"
    /\ loaded # {}
    /\ file.kind = "array"

\* one of the two required values is absent or empty in this invocation
ConfigMissing ==
    bot_token \in {"<unset>", ""} \/ channel_id \in {"<unset>", ""}

\* C11: with both configuration values present the process ends with
\* status 0 whatever fails in fetch, load, dispatch or save; a process
\* that ends with another status lacked configuration.
C11_OnlyConfigTerminates ==
    (pc = "exit" /\ ~ConfigMissing) => exit_code = 0

\* C12: an invocation lacking one of the two configuration values ends
\* with status 1 at once: nothing is loaded, fetched, evaluated,
\* dispatched or saved, and the file is left as it was.
C12_MissingConfigExitsBeforeScan ==
    [][ (runNo' # runNo /\ ConfigMissing') =>
            /\ pc' = "exit"
            /\ exit_code' = 1
            /\ log' = <<>>
            /\ load_outcome' = "none"
            /\ fetch_outcome' = "none"
            /\ save_outcome' = "none"
            /\ potential_trends' = <<>>
            /\ new_trends_found' = 0
            /\ file' = file
      ]_vars

\* after a scan that saved, an invocation with the token set and the
\* channel empty has exited
C12_Witness ==
    /\ pc = "exit"
    /\ exit_code = 1
    /\ bot_token = "set"
    /\ channel_id = ""
    /\ prev.scanned
    /\ file.kind = "array"
    /\ file.items # <<>>
    /\ log = <<>>

\* C13: no two distinct stored phrases have the same lowercased form, and
\* a candidate whose lowercased form is that of a stored phrase is not
\* dispatched.
C13_UniqueByLowercase ==
    /\ \A p \in seen_phrases, q \in seen_phrases :
          LowerKey[p] = LowerKey[q] => p = q
    /\ \A i \in 1..Len(log) :
          log[i].op = "send" =>
              /\ \A q \in loaded : LowerKey[q] # LowerKey[log[i].phrase]
              /\ \A j \in 1..(i - 1) :
                    log[j].op = "add"
                       => LowerKey[log[j].phrase] # LowerKey[log[i].phrase]

\* C13 as amended: the store is keyed by the exact string. A candidate is
\* treated as seen exactly when the identical string was loaded or added
\* earlier in this run, so no string is dispatched twice in a run or
\* dispatched when loaded; a candidate differing from a stored phrase only
\* in letter case is a new phrase.
C13_UniqueByExactString ==
    /\ \A i \in 1..Len(log) :
          log[i].op = "check_seen" =>
              ( log[i].result = "seen" <=>
                  \/ log[i].phrase \in loaded
                  \/ \E j \in 1..(i - 1) :
                        log[j].op = "add" /\ log[j].phrase = log[i].phrase )
    /\ \A p \in SentPhrases(log) : SentCount(log, p) = 1 /\ p \notin loaded

\* a run dispatched and stored two phrases that differ only in case
C13_Witness ==
    /\ pc = "exit"
    /\ SentCount(log, "Oversized Shirt") = 1
    /\ SentCount(log, "oversized shirt") = 1
    /\ {"Oversized Shirt", "oversized shirt"} \subseteq seen_phrases

\* C14: a save that fails changes nothing: the in-memory set is as before,
\* the run ends with status 0 and the file holds what it held before the
\* attempt.
C14_FailedSaveLeavesStale ==
    [][ ( /\ pc = "loop"
          /\ pc' = "exit"
          /\ save_outcome' \in {"open_failed", "write_failed"} )
            => /\ seen_phrases' = seen_phrases
               /\ exit_code' = 0
               /\ file' = file
      ]_vars

\* the number of the candidate the event at position j of log l belongs to
CandNo(l, j) == Cardinality({ i \in 1..j : l[i].op = "check_seen" })

\* the position of the first occurrence of phrase p in rows
FirstIndex(rows, p) ==
    CHOOSE k \in 1..Len(rows) :
        rows[k].query = p /\ \A m \in 1..(k - 1) : rows[m].query # p

Qualifies(p) ==
    p \in Queries(potential_trends) /\ valid_query[p] /\ p \notin loaded

\* C15: the loop takes the candidates once each, in order, to the end of
\* the list whatever the sends return; a phrase that is valid and was not
\* loaded is dispatched exactly once, at its first occurrence, and no
\* other candidate is dispatched.
C15_SinglePassComplete ==
    (pc \in {"loop", "exit"} /\ fetch_outcome # "none") =>
        /\ CandNo(log, Len(log)) = idx - 1
        /\ \A j \in 1..Len(log) :
              log[j].op = "check_seen" =>
                  log[j].phrase = potential_trends[CandNo(log, j)].query
        /\ \A j \in 1..Len(log) :
              log[j].op = "send" =>
                  /\ Qualifies(log[j].phrase)
                  /\ CandNo(log, j) = FirstIndex(potential_trends, log[j].phrase)
        /\ \A p \in Phrases : SentCount(log, p) <= 1
        /\ pc = "exit" =>
              /\ idx = Len(potential_trends) + 1
              /\ \A p \in Phrases :
                    SentCount(log, p) = IF Qualifies(p) THEN 1 ELSE 0

\* a run went on to dispatch its second candidate after the send for the
\* first had failed
C15_Witness ==
    /\ pc = "exit"
    /\ Len(potential_trends) = 2
    /\ \E i \in 1..Len(log), j \in 1..Len(log) :
          /\ i < j
          /\ log[i].op = "send"
          /\ log[i].result # "200"
          /\ log[j].op = "send"
          /\ log[j].phrase # log[i].phrase

\* C16: the operations of an invocation come in the order load, fetch,
\* candidates, save: fetch happens once, before any candidate is looked
\* at; for a candidate the seen check comes first, then the filter, then
\* the dispatch, then the insertion; save happens at most once, after
\* the last candidate, and is the last operation of the run.
C16_RunOrder ==
    /\ \A i \in 1..Len(log) : log[i].op = "load" <=> i = 1
    /\ \A i \in 1..Len(log) : log[i].op = "fetch" <=> i = 2
    /\ (pc = "loop" \/ (pc = "exit" /\ exit_code = 0)) => Len(log) >= 2
    /\ \A i \in 1..Len(log) :
          /\ log[i].op = "is_valid" =>
                /\ log[i - 1].op = "check_seen"
                /\ log[i - 1].result = "new"
                /\ log[i - 1].phrase = log[i].phrase
          /\ log[i].op = "send" =>
                /\ log[i - 1].op = "is_valid"
                /\ log[i - 1].result = "valid"
                /\ log[i - 1].phrase = log[i].phrase
                /\ i < Len(log)
                /\ log[i + 1].op = "add"
          /\ log[i].op = "add" =>
                /\ log[i - 1].op = "send"
                /\ log[i - 1].phrase = log[i].phrase
          /\ log[i].op = "save" =>
                /\ i = Len(log)
                /\ pc = "exit"
                /\ CandNo(log, i) = Len(potential_trends)

\* a run rejected its first candidate, dispatched its second and saved
C16_Witness ==
    /\ pc = "exit"
    /\ exit_code = 0
    /\ Len(log) = 9
    /\ log[4].op = "is_valid"
    /\ log[4].result = "invalid"
    /\ log[7].op = "send"
    /\ log[9].op = "save"

\* the growth value the source gives with phrase p
ValueOf(p) == (CHOOSE c \in Feed : c.query = p).value

\* C17: every dispatch renders the growth as "BREAKOUT" when the value is
\* "breakout" in any letter case and as "+<value>%" otherwise: "Oversized
\* Shirt" with 250 is dispatched once, with "+250%", when it was not
\* loaded; "Red Denim Shirt" with Breakout is never dispatched.
C17_GrowthRendering ==
    /\ \A i \in 1..Len(log) :
          log[i].op = "send" =>
              /\ log[i].growth =
                    IF ValueOf(log[i].phrase) \in
                          {"breakout", "Breakout", "BREAKOUT"}
                    THEN "BREAKOUT"
                    ELSE "+" \o ValueOf(log[i].phrase) \o "%"
              /\ log[i].phrase = "Oversized Shirt" => log[i].growth = "+250%"
              /\ log[i].phrase = "oversized shirt" => log[i].growth = "BREAKOUT"
    /\ ( /\ pc = "exit"
         /\ exit_code = 0
         /\ "Oversized Shirt" \in Queries(potential_trends)
         /\ "Oversized Shirt" \notin loaded )
          => Cardinality({ i \in 1..Len(log) :
                             /\ log[i].op = "send"
                             /\ log[i].phrase = "Oversized Shirt"
                             /\ log[i].growth = "+250%" }) = 1
    /\ SentCount(log, "Red Denim Shirt") = 0

\* a run over "Red Denim Shirt" and "Oversized Shirt" dispatched the
\* second with "+250%", after a run that dispatched a breakout
C17_Witness ==
    /\ pc = "exit"
    /\ Len(potential_trends) = 2
    /\ potential_trends[1].query = "Red Denim Shirt"
    /\ \E i \in 1..Len(log) :
          /\ log[i].op = "send"
          /\ log[i].phrase = "Oversized Shirt"
          /\ log[i].growth = "+250%"
    /\ \E i \in 1..Len(prev.log) :
          /\ prev.log[i].op = "send"
          /\ prev.log[i].growth = "BREAKOUT"

\* C18: after a run whose save succeeded the file is a JSON array holding,
\* once each, exactly the phrases loaded at the start of the run and the
\* phrases dispatched in it; when the load gave the empty set the file
\* holds the phrases dispatched in this run and nothing else.
C18_SavedIsLoadedPlusSent ==
    (pc = "exit" /\ save_outcome = "ok") =>
        /\ file.kind = "array"
        /\ Range(file.items) = loaded \cup SentPhrases(log)
        /\ Len(file.items) = Cardinality(loaded \cup SentPhrases(log))
        /\ load_outcome \in {"absent", "ioerror", "malformed"}
              => Range(file.items) = SentPhrases(log)

\* a run whose load failed overwrote what the previous run had saved
C18_Witness ==
    /\ pc = "exit"
    /\ save_outcome = "ok"
    /\ load_outcome = "ioerror"
    /\ prev.scanned
    /\ prev.save_outcome = "ok"
    /\ \E p \in prev.seen_phrases : p \notin Range(file.items)

\* C19: during and after the loop the counter is the number of dispatches
\* made so far in this run, the number of insertions, and the number of
\* phrases in the in-memory store that were not loaded.
C19_CounterIsGrowth ==
    (pc \in {"loop", "exit"} /\ fetch_outcome # "none") =>
        /\ new_trends_found =
              Cardinality({ i \in 1..Len(log) : log[i].op = "send" })
        /\ new_trends_found =
              Cardinality({ i \in 1..Len(log) : log[i].op = "add" })
        /\ new_trends_found = Cardinality(seen_phrases \ loaded)
        /\ loaded \subseteq seen_phrases

\* the loop stands between its two candidates with one dispatch made and
\* a loaded phrase in the store
C19_Witness ==
    /\ pc = "loop"
    /\ idx = 2
    /\ Len(potential_trends) = 2
    /\ new_trends_found = 1
    /\ loaded # {}
    /\ Cardinality(seen_phrases) = 2

====
